---- MODULE Spec2Model ----
(***************************************************************************)
(* A model of the views of the meal planner (src/chef/views.py): the      *)
(* database rows the views read and write, the per-user session, and one  *)
(* action per HTTP request handler.  Every request is handled to          *)
(* completion before the next one starts (one unit of work per request).  *)
(*                                                                         *)
(* Strings that the code takes apart (the HTTP referrer) are sequences of *)
(* tokens, so that split() and resolve() are computed and not assumed.    *)
(* The Dish field `text` is carried by no claim and is left out of a row. *)
(***************************************************************************)
EXTENDS Integers, Sequences, FiniteSets, TLC

VARIABLES dishes, meals, nextDishId, nextMealId, session, visit, last

vars == <<dishes, meals, nextDishId, nextMealId, session, visit, last>>

(* ------------------------------ bounds -------------------------------- *)

\* how many Dish rows are ever inserted (primary keys 1..MaxDishId)
MaxDishId == 3
\* how many Meal rows are ever inserted (primary keys 1..MaxMealId)
MaxMealId == 2
\* how many Dish rows are ever inserted in the specification of the whole application
AppDishId == 2
\* how many Meal rows are ever inserted in the specification of the whole application
AppMealId == 1
\* calendar days are numbered 0..MaxDay, day 0 being a first day of a week
MaxDay == 14
\* longest referrer, in tokens, of the referrer specification
MaxRefLen == 3

(* ------------------------------ values -------------------------------- *)

Users == {"u1", "u2"}
\* request.user of a request that carries no login
Anonymous == "AnonymousUser"
\* the owner column of a row saved before its owner is set (NULL)
NoOwner == "NULL"
Titles == {"a", "b"}

\* an optional value: dict.get(key) is None when the key is absent
Some(v) == [present |-> TRUE, value |-> v]
None == [present |-> FALSE, value |-> <<>>]

\* tokens of a URL
Scheme == "https://"
Host == "example.com"
OtherHost == "other.org"
MealAddPath == "/meal/add/"
DishAddPath == "/dish/add/"
DishListPath == "/dishes/"
SchedulePath == "/"
NoSuchPath == "/nope/"
Tokens == {Scheme, Host, OtherHost, MealAddPath, DishAddPath, DishListPath, NoSuchPath}

\* the referrer a browser sends when the link was followed on the meal-creation page
MealCreateUrl == <<Scheme, Host, MealAddPath>>

\* the referrers of the application specification: one of every kind
RepReferers ==
    {None, Some(<<>>), Some(MealCreateUrl), Some(<<Scheme, Host, DishAddPath>>),
     Some(<<Scheme, Host, DishListPath>>), Some(<<Scheme, Host, NoSuchPath>>),
     Some(<<Scheme, OtherHost, NoSuchPath>>)}

SeqsUpTo(S, n) == UNION {[1..k -> S] : k \in 0..n}

\* every referrer of at most MaxRefLen tokens, and the absent one
AllReferers == {None} \cup {Some(s) : s \in SeqsUpTo(Tokens, MaxRefLen)}

Days == 0..MaxDay
WeekStarts == {d \in Days : d % 7 = 0}

(* --------------------------- URL handling ----------------------------- *)

\* reverse(name): the path of a named route
reverse(name) ==
    IF name = "dish-list" THEN <<DishListPath>> ELSE <<SchedulePath>>

\* resolve(path): the view a path is routed to, or Resolver404
resolve(path) ==
    IF path = <<MealAddPath>> THEN "MealCreate"
    ELSE IF path = <<DishAddPath>> THEN "DishCreate"
    ELSE IF path \in {<<DishListPath>>, <<SchedulePath>>} THEN "function"
    ELSE "Resolver404"

\* the index of the first token of s equal to sep, 0 when there is none
Find(s, sep) ==
    IF \E i \in 1..Len(s) : s[i] = sep
    THEN CHOOSE i \in 1..Len(s) : s[i] = sep /\ \A j \in 1..(i - 1) : s[j] # sep
    ELSE 0

RECURSIVE split(_, _)
\* str.split(sep): the pieces of s between the occurrences of sep
split(s, sep) ==
    LET i == Find(s, sep)
    IN  IF i = 0 THEN <<s>>
        ELSE <<SubSeq(s, 1, i - 1)>> \o split(SubSeq(s, i + 1, Len(s)), sep)

(* ------------------------------ session ------------------------------- *)

\* the session holds at most the key special_success_url
EmptySession == None

\* DishCreate.setup: what it raises and the session it leaves
setup(sess, referring_url) ==
    IF ~referring_url.present \/ referring_url.value = <<>>
    THEN [exc |-> "none", session |-> sess]
    ELSE LET split_referring_url == split(referring_url.value, Host)
         IN  IF Len(split_referring_url) < 2
             THEN [exc |-> "IndexError", session |-> sess]
             ELSE LET referring_path == split_referring_url[2]
                  IN  IF resolve(referring_path) = "MealCreate"
                      THEN [exc |-> "none", session |-> Some(referring_path)]
                      ELSE [exc |-> "none", session |-> sess]

\* DishCreate.get_success_url: the destination and the session it leaves
DishCreate_get_success_url(sess) ==
    IF sess.present /\ sess.value # <<>>
    THEN [url |-> sess.value, session |-> EmptySession]
    ELSE [url |-> reverse("dish-list"), session |-> sess]

\* get_success_url of the two creation views
get_success_url(model, sess) ==
    IF model = "Dish" THEN DishCreate_get_success_url(sess)
    ELSE [url |-> reverse("meal-schedule"), session |-> sess]

(* ------------------------------ database ------------------------------ *)

DishRow(id, owner, title, exclude) ==
    [id |-> id, owner |-> owner, title |-> title, exclude_from_suggestions |-> exclude]

MealRow(id, dish, date, owner) ==
    [id |-> id, dish |-> dish, date |-> date, owner |-> owner]

\* the row of primary key id, when there is one
HasRow(rows, id) == \E r \in rows : r.id = id
GetRow(rows, id) == CHOOSE r \in rows : r.id = id

\* the database's unique constraint on Dish (owner, title); a NULL owner
\* equals no owner, so rows without an owner never conflict.  Meal has none.
UniqueViolation(model, rows, row) ==
    /\ model = "Dish"
    /\ row.owner # NoOwner
    /\ \E r \in rows : r.id # row.id /\ r.owner = row.owner /\ r.title = row.title

\* Model.save() of a row that is already stored: UPDATE ... WHERE id = row.id
SaveRow(rows, row) == {r \in rows : r.id # row.id} \cup {row}

\* deleting a dish deletes the meals that refer to it
CascadeMeals(mealRows, dishId) == {m \in mealRows : m.dish # dishId}

\* MealForm(owner=user): the dishes offered in the form are the owner's
MealForm_dishes(user) == {d.id : d \in {x \in dishes : x.owner = user}}

(* ------------------------------ responses ----------------------------- *)

redirect(path) == [status |-> 302, location |-> path, warnings |-> 0]
render == [status |-> 200, location |-> <<>>, warnings |-> 0]
error(code) == [status |-> code, location |-> <<>>, warnings |-> 0]

\* a form_valid whose except branch answers with the redirect already built
IntegrityErrorResponse_retval(request_path, retval) == retval

\* the except branch of SetOwnerMixin.form_valid
IntegrityErrorResponse(request_path, retval) ==
    [status |-> 302, location |-> request_path, warnings |-> 1]

\* SetOwnerMixin.form_valid on a valid form whose unsaved object is obj
\* (owner not set).  The superclass saves the object and builds the redirect
\* to get_success_url(); then the owner is set and the object saved again.
\* Each save is committed on its own (the framework's default autocommit).
form_valid(model, rows, obj, sess, user, request_path) ==
    LET saved == rows \cup {obj}
        su == get_success_url(model, sess)
        retval == redirect(su.url)
        owned == [obj EXCEPT !.owner = user]
    IN  IF UniqueViolation(model, saved, owned)
        THEN [rows |-> saved, session |-> su.session, integrity |-> "caught",
              response |-> IntegrityErrorResponse(request_path, retval)]
        ELSE [rows |-> SaveRow(saved, owned), session |-> su.session,
              integrity |-> "none", response |-> retval]

\* a test_func that lets every logged-in user through
test_func_any_login(user, obj) == user # Anonymous

\* test_func of DishUpdate, DishDelete, MealUpdate and MealDelete
test_func(user, obj) == user = obj.owner

\* raise_exception of the four views
raise_exception == TRUE

\* AccessMixin.handle_no_permission
handle_no_permission(user) ==
    IF raise_exception \/ user # Anonymous
    THEN error(403)
    ELSE redirect(<<"/accounts/login/">>)

(* ------------------------------ helpers ------------------------------- *)

\* the first day of the week of day d (weeks start on the days 0, 7, 14, ...)
first_day_of_week(d) == d - (d % 7)

\* the user's meals of the week that starts on start
meals_for_week(start, user) ==
    {m \in meals : m.owner = user /\ start <= m.date /\ m.date < start + 7}

\* the day a dish was last scheduled on, -1 when it never was
last_scheduled(dishId) ==
    LET ds == {m.date : m \in {x \in meals : x.dish = dishId}}
    IN  IF ds = {} THEN -1 ELSE CHOOSE d \in ds : \A e \in ds : e <= d

\* the user's dishes, not excluded from suggestions, scheduled least recently
suggest_dishes(user) ==
    LET candidates == {d \in dishes : d.owner = user /\ ~d.exclude_from_suggestions}
    IN  {d.id : d \in {c \in candidates :
                    \A e \in candidates : last_scheduled(c.id) <= last_scheduled(e.id)}}

\* d[key] = value on a dict kept as its sequence of <<key, value>> in insertion order
DictSet(d, key, value) ==
    IF \E i \in 1..Len(d) : d[i][1] = key
    THEN [i \in 1..Len(d) |-> IF d[i][1] = key THEN <<key, value>> ELSE d[i]]
    ELSE Append(d, <<key, value>>)

\* a meal_schedule that fills the dictionary in the order of the current week first
meal_schedule_context_this_first(user, date_now) ==
    LET current_week_label == "This week"
        start_of_this_week == first_day_of_week(date_now)
        start_of_last_week == start_of_this_week - 7
        start_of_next_week == start_of_this_week + 7
        m1 == DictSet(<<>>, current_week_label, meals_for_week(start_of_this_week, user))
        m2 == DictSet(m1, "Last week", meals_for_week(start_of_last_week, user))
        m3 == DictSet(m2, "Next week", meals_for_week(start_of_next_week, user))
    IN  [meals |-> IF user # Anonymous THEN m3 ELSE <<>>,
         current_week_label |-> current_week_label]

\* the context of meal_schedule
meal_schedule_context(user, date_now) ==
    LET current_week_label == "This week"
        start_of_this_week == first_day_of_week(date_now)
        start_of_last_week == start_of_this_week - 7
        start_of_next_week == start_of_this_week + 7
        m1 == DictSet(<<>>, "Last week", meals_for_week(start_of_last_week, user))
        m2 == DictSet(m1, current_week_label, meals_for_week(start_of_this_week, user))
        m3 == DictSet(m2, "Next week", meals_for_week(start_of_next_week, user))
    IN  [meals |-> IF user # Anonymous THEN m3 ELSE <<>>,
         current_week_label |-> current_week_label]

\* a dish_list that hands the dish list itself to the template as the suggestions
dish_list_context_all_dishes(user) ==
    [dishes |-> {d.id : d \in {x \in dishes : x.owner = user}},
     dish_suggestions |-> {d.id : d \in {x \in dishes : x.owner = user}}]

\* the context of dish_list (without a search query)
dish_list_context(user) ==
    [dishes |-> {d.id : d \in {x \in dishes : x.owner = user}},
     dish_suggestions |-> suggest_dishes(user)]

(* ------------------------------- state -------------------------------- *)

\* the request handled last and its response; target is the primary key the
\* request names (0 when it names none) or, for the schedule, the current day
Handled(view, method, user, referer, target, integrity, exc, response, context) ==
    [view |-> view, method |-> method, user |-> user, referer |-> referer,
     target |-> target, integrity |-> integrity, exc |-> exc,
     status |-> response.status, location |-> response.location,
     warnings |-> response.warnings, context |-> context]

Init ==
    /\ dishes = {}
    /\ meals = {}
    /\ nextDishId = 1
    /\ nextMealId = 1
    /\ session = [u \in Users |-> EmptySession]
    /\ visit = [u \in Users |-> "none"]
    /\ last = Handled("none", "none", Anonymous, None, 0, "none", "none", render, <<>>)

\* where the dish-creation page was reached from
Origin(referer) == IF referer = Some(MealCreateUrl) THEN "meal" ELSE "other"

(* ------------------------------ requests ------------------------------ *)

\* GET of the dish-creation form
DishCreateGet(users, referers) ==
    \E user \in users, referer \in referers :
        LET s == setup(session[user], referer)
        IN  /\ session' = [session EXCEPT ![user] = s.session]
            /\ visit' = [visit EXCEPT ![user] =
                            IF s.exc = "none" THEN Origin(referer) ELSE @]
            /\ last' = Handled("DishCreate", "GET", user, referer, 0, "none", s.exc,
                               IF s.exc = "none" THEN render ELSE error(500), <<>>)
            /\ UNCHANGED <<dishes, meals, nextDishId, nextMealId>>

\* POST of a valid dish-creation form
DishCreatePost(users, referers, titles, flags, maxId) ==
    \E user \in users, referer \in referers, title \in titles, exclude \in flags :
        LET s == setup(session[user], referer)
            obj == DishRow(nextDishId, NoOwner, title, exclude)
            fv == form_valid("Dish", dishes, obj, s.session, user, <<DishAddPath>>)
        IN  /\ IF s.exc # "none"
               THEN /\ last' = Handled("DishCreate", "POST", user, referer, 0, "none",
                                       s.exc, error(500), <<>>)
                    /\ UNCHANGED <<dishes, nextDishId, session>>
               ELSE /\ nextDishId <= maxId
                    /\ dishes' = fv.rows
                    /\ nextDishId' = nextDishId + 1
                    /\ session' = [session EXCEPT ![user] = fv.session]
                    /\ last' = Handled("DishCreate", "POST", user, referer, obj.id,
                                       fv.integrity, "none", fv.response, <<>>)
            /\ UNCHANGED <<meals, nextMealId, visit>>

\* POST of a valid meal-creation form
MealCreatePost(users, dates, maxId) ==
    \E user \in users, date \in dates :
        \E dish \in MealForm_dishes(user) :
            LET obj == MealRow(nextMealId, dish, date, NoOwner)
                fv == form_valid("Meal", meals, obj, session[user], user, <<MealAddPath>>)
            IN  /\ nextMealId <= maxId
                /\ meals' = fv.rows
                /\ nextMealId' = nextMealId + 1
                /\ session' = [session EXCEPT ![user] = fv.session]
                /\ last' = Handled("MealCreate", "POST", user, None, obj.id,
                                   fv.integrity, "none", fv.response, <<>>)
                /\ UNCHANGED <<dishes, nextDishId, visit>>

\* GET or POST (of a valid form) of the dish-update view
DishUpdateRequest(users, titles, flags) ==
    \E user \in users, method \in {"GET", "POST"}, pk \in 1..MaxDishId,
       title \in titles, exclude \in flags :
        /\ HasRow(dishes, pk)
        /\ LET dish == GetRow(dishes, pk)
               changed == [dish EXCEPT !.title = title,
                                       !.exclude_from_suggestions = exclude]
           IN  IF ~test_func(user, dish)
               THEN /\ last' = Handled("DishUpdate", method, user, None, pk, "none",
                                       "PermissionDenied", handle_no_permission(user), <<>>)
                    /\ UNCHANGED dishes
               ELSE IF method = "GET"
               THEN /\ last' = Handled("DishUpdate", method, user, None, pk, "none",
                                       "none", render, <<>>)
                    /\ UNCHANGED dishes
               ELSE IF UniqueViolation("Dish", dishes, changed)
               THEN /\ last' = Handled("DishUpdate", method, user, None, pk, "uncaught",
                                       "IntegrityError", error(500), <<>>)
                    /\ UNCHANGED dishes
               ELSE /\ last' = Handled("DishUpdate", method, user, None, pk, "none",
                                       "none", redirect(reverse("dish-list")), <<>>)
                    /\ dishes' = SaveRow(dishes, changed)
        /\ UNCHANGED <<meals, nextDishId, nextMealId, session, visit>>

\* GET (the confirmation page) or POST of the dish-delete view
DishDeleteRequest(users) ==
    \E user \in users, method \in {"GET", "POST"}, pk \in 1..MaxDishId :
        /\ HasRow(dishes, pk)
        /\ LET dish == GetRow(dishes, pk)
           IN  IF ~test_func(user, dish)
               THEN /\ last' = Handled("DishDelete", method, user, None, pk, "none",
                                       "PermissionDenied", handle_no_permission(user), <<>>)
                    /\ UNCHANGED <<dishes, meals>>
               ELSE IF method = "GET"
               THEN /\ last' = Handled("DishDelete", method, user, None, pk, "none",
                                       "none", render, <<>>)
                    /\ UNCHANGED <<dishes, meals>>
               ELSE /\ last' = Handled("DishDelete", method, user, None, pk, "none",
                                       "none", redirect(reverse("dish-list")), <<>>)
                    /\ dishes' = dishes \ {dish}
                    /\ meals' = CascadeMeals(meals, pk)
        /\ UNCHANGED <<nextDishId, nextMealId, session, visit>>

\* GET or POST (of a valid form) of the meal-update view
MealUpdateRequest(users, dates) ==
    \E user \in users, method \in {"GET", "POST"}, pk \in 1..MaxMealId, date \in dates :
        /\ HasRow(meals, pk)
        /\ LET meal == GetRow(meals, pk)
           IN  IF ~test_func(user, meal)
               THEN /\ last' = Handled("MealUpdate", method, user, None, pk, "none",
                                       "PermissionDenied", handle_no_permission(user), <<>>)
                    /\ UNCHANGED meals
               ELSE IF method = "GET"
               THEN /\ last' = Handled("MealUpdate", method, user, None, pk, "none",
                                       "none", render, <<>>)
                    /\ UNCHANGED meals
               ELSE \E dish \in MealForm_dishes(user) :
                    /\ last' = Handled("MealUpdate", method, user, None, pk, "none",
                                       "none", redirect(reverse("meal-schedule")), <<>>)
                    /\ meals' = SaveRow(meals, [meal EXCEPT !.dish = dish, !.date = date])
        /\ UNCHANGED <<dishes, nextDishId, nextMealId, session, visit>>

\* GET (the confirmation page) or POST of the meal-delete view
MealDeleteRequest(users) ==
    \E user \in users, method \in {"GET", "POST"}, pk \in 1..MaxMealId :
        /\ HasRow(meals, pk)
        /\ LET meal == GetRow(meals, pk)
           IN  IF ~test_func(user, meal)
               THEN /\ last' = Handled("MealDelete", method, user, None, pk, "none",
                                       "PermissionDenied", handle_no_permission(user), <<>>)
                    /\ UNCHANGED meals
               ELSE IF method = "GET"
               THEN /\ last' = Handled("MealDelete", method, user, None, pk, "none",
                                       "none", render, <<>>)
                    /\ UNCHANGED meals
               ELSE /\ last' = Handled("MealDelete", method, user, None, pk, "none",
                                       "none", redirect(reverse("meal-schedule")), <<>>)
                    /\ meals' = meals \ {meal}
        /\ UNCHANGED <<dishes, nextDishId, nextMealId, session, visit>>

\* the dish list page
DishListRequest(users) ==
    \E user \in users :
        /\ last' = Handled("dish_list", "GET", user, None, 0, "none", "none", render,
                           dish_list_context(user))
        /\ UNCHANGED <<dishes, meals, nextDishId, nextMealId, session, visit>>

\* the weekly schedule page, on the day date_now
MealScheduleRequest(users, days) ==
    \E user \in users, date_now \in days :
        /\ last' = Handled("meal_schedule", "GET", user, None, date_now, "none", "none",
                           render, meal_schedule_context(user, date_now))
        /\ UNCHANGED <<dishes, meals, nextDishId, nextMealId, session, visit>>

(* --------------------------- specifications --------------------------- *)

Visitors == Users \cup {Anonymous}

\* the application: every view, two users and a visitor who is not logged in
Next ==
    \/ DishCreateGet({"u1"}, {Some(MealCreateUrl)})
    \/ DishCreatePost(Users, {None}, {"a"}, {FALSE}, AppDishId)
    \/ DishUpdateRequest(Visitors, Titles, {FALSE})
    \/ DishDeleteRequest(Visitors)
    \/ MealCreatePost(Users, {0}, AppMealId)
    \/ MealUpdateRequest(Visitors, {7})
    \/ MealDeleteRequest(Visitors)
    \/ DishListRequest({"u1"})
    \/ MealScheduleRequest({"u1"}, {0})

Spec == Init /\ [][Next]_vars

\* the creation views in one session, under every kind of referrer
NextCreate ==
    \/ DishCreateGet({"u1"}, RepReferers)
    \/ DishCreatePost({"u1"}, RepReferers, Titles, {FALSE}, MaxDishId)
    \/ MealCreatePost({"u1"}, {0}, MaxMealId)

SpecCreate == Init /\ [][NextCreate]_vars

\* the dishes of two users: created, retitled and deleted
NextDishes ==
    \/ DishCreatePost(Users, {None}, Titles, {FALSE}, MaxDishId)
    \/ DishUpdateRequest(Users, Titles, {FALSE})
    \/ DishDeleteRequest(Users)

SpecDishes == Init /\ [][NextDishes]_vars

\* the suggestions of one user over dishes flagged and not, scheduled and not
NextSuggest ==
    \/ DishCreatePost({"u1"}, {None}, Titles, BOOLEAN, MaxDishId)
    \/ DishUpdateRequest({"u1"}, Titles, BOOLEAN)
    \/ MealCreatePost({"u1"}, {0, 7}, MaxMealId)
    \/ DishListRequest({"u1"})

SpecSuggest == Init /\ [][NextSuggest]_vars

\* dish creation alone, under every referrer
NextSetup ==
    \/ DishCreateGet({"u1"}, AllReferers)
    \/ DishCreatePost({"u1"}, AllReferers, {"a"}, {FALSE}, 1)

SpecSetup == Init /\ [][NextSetup]_vars

\* the weekly schedule on every day, over meals on every day
NextSchedule ==
    \/ DishCreatePost({"u1"}, {None}, {"a"}, {FALSE}, 1)
    \/ MealCreatePost({"u1"}, Days, MaxMealId)
    \/ MealScheduleRequest({"u1", Anonymous}, Days)

SpecSchedule == Init /\ [][NextSchedule]_vars

(* ------------------------------- claims ------------------------------- *)

\* this step handled a POST of the dish-creation form that reached form_valid
DishPosted ==
    last'.view = "DishCreate" /\ last'.method = "POST" /\ last'.exc = "none"

\* the title this step's dish-creation form carried
PostedTitle == GetRow(dishes', last'.target).title

\* C1: when the owner already has a dish of the submitted title, a valid
\* dish-creation POST issues a warning and the number of stored Dish rows after
\* the request equals the number before it.
C1_DuplicateAddsNoRow ==
    [][(DishPosted /\ \E r \in dishes : r.owner = last'.user /\ r.title = PostedTitle)
        => (last'.warnings = 1 /\ Cardinality(dishes') = Cardinality(dishes))]_vars

\* C2: a successful dish save redirects to the meal-creation path only when the
\* dish-creation visit that led to it came from the meal-creation page, and a
\* save that follows a visit with another referrer redirects to the dish list.
C2_RedirectFollowsVisit ==
    (/\ last.view = "DishCreate" /\ last.method = "POST"
     /\ last.status = 302 /\ last.integrity = "none"
     /\ Origin(last.referer) # "meal")
    => /\ last.location = <<MealAddPath>> => visit[last.user] = "meal"
       /\ visit[last.user] = "other" => last.location = reverse("dish-list")

\* the destinations a successful save could redirect to in this step: the dish
\* list, the schedule, and the destination remembered when the request arrived
\* or remembered by its own setup
SuccessUrls(user, referer) ==
    LET before == session[user]
        after == setup(before, referer).session
    IN  {reverse("dish-list"), reverse("meal-schedule")}
            \cup (IF before.present THEN {before.value} ELSE {})
            \cup (IF after.present THEN {after.value} ELSE {})

\* the path of the creation view this step's request was sent to
RequestPath == IF last'.view = "DishCreate" THEN <<DishAddPath>> ELSE <<MealAddPath>>

NamesMealCreate(referer) ==
    /\ referer.present
    /\ \E i \in 1..(Len(referer.value) - 1) :
        /\ referer.value[i] = Host
        /\ referer.value[i + 1] = MealAddPath
        /\ \A j \in 1..(i - 1) : referer.value[j] # Host
        /\ (i + 2 <= Len(referer.value) => referer.value[i + 2] = Host)

\* C4: for every referrer, DishCreate.setup completes without raising, and it
\* changes the session's special_success_url only when the referrer resolves to
\* MealCreate.
C4_SetupNeverRaises ==
    [][(last'.view = "DishCreate" /\ last'.method = "GET")
        => /\ last'.exc = "none"
           /\ last'.status = 200
           /\ (session'[last'.user] # session[last'.user]
                  => NamesMealCreate(last'.referer))]_vars

\* the meals of the user whose date lies in the seven days from start
InWeek(user, start) ==
    {m \in meals : m.owner = user /\ m.date \in start..(start + 6)}

\* C5: for an authenticated user and every current date, meal_schedule builds
\* exactly three groups, in the order Last week, This week, Next week, of the
\* weeks that start 7 days before, on, and 7 days after the first day of the
\* current week.
C5_WeeksInOrder ==
    (last.view = "meal_schedule" /\ last.user # Anonymous)
    => LET groups == last.context.meals
           monday == CHOOSE d \in (last.target - 6)..last.target : d % 7 = 0
       IN  /\ Len(groups) = 3
           /\ <<groups[1][1], groups[2][1], groups[3][1]>>
                 = <<"Last week", "This week", "Next week">>
           /\ groups[1][2] = InWeek(last.user, monday - 7)
           /\ groups[2][2] = InWeek(last.user, monday)
           /\ groups[3][2] = InWeek(last.user, monday + 7)

\* the schedule of a day inside a week, with a meal in the week before and a
\* meal in the week after
C5_Witness ==
    /\ last.view = "meal_schedule" /\ last.user = "u1"
    /\ last.target % 7 # 0
    /\ Len(last.context.meals) = 3
    /\ last.context.meals[1][2] # {}
    /\ last.context.meals[3][2] # {}

\* C6: the dish_suggestions handed to the dish list page hold no dish whose
\* exclude_from_suggestions flag is set.
C6_NoExcludedSuggestion ==
    last.view = "dish_list"
    => \A id \in last.context.dish_suggestions :
           /\ HasRow(dishes, id)
           /\ ~GetRow(dishes, id).exclude_from_suggestions
           /\ GetRow(dishes, id).owner = last.user

\* a dish list with a suggestion, for a user who also has a scheduled dish that
\* is excluded from the suggestions
C6_Witness ==
    /\ last.view = "dish_list"
    /\ last.context.dish_suggestions # {}
    /\ \E d \in dishes :
        /\ d.owner = last.user
        /\ d.exclude_from_suggestions
        /\ \E m \in meals : m.dish = d.id

\* C7: the session key special_success_url is removed only by a request whose
\* response redirects to the remembered destination, and after such a request
\* the session holds no remembered destination.
C7_ClearedOnlyByUse ==
    [][\A u \in Users :
        session[u].present
        => /\ ~session'[u].present
              => (last'.status = 302 /\ last'.location = session[u].value)
           /\ (DishPosted /\ last'.user = u /\ last'.integrity = "none")
              => ~session'[u].present]_vars

GuardedViews == {"DishUpdate", "DishDelete", "MealUpdate", "MealDelete"}

\* the row this step's request targets, as it was stored before the request
Targeted ==
    IF last'.view \in {"DishUpdate", "DishDelete"}
    THEN GetRow(dishes, last'.target)
    ELSE GetRow(meals, last'.target)

\* C8: a request to DishUpdate, DishDelete, MealUpdate or MealDelete from a user
\* who is not the owner of the targeted row is answered with permission denied
\* and changes nothing; a stored Dish or Meal is modified or deleted only by a
\* request from its owner.
C8_OwnerOnly ==
    [][/\ (last'.view \in GuardedViews /\ Targeted.owner # last'.user)
          => (last'.status = 403 /\ dishes' = dishes /\ meals' = meals)
       /\ \A d \in dishes \ dishes' : d.owner = last'.user
       /\ \A m \in meals \ meals' : m.owner = last'.user]_vars

\* a logged-in user was refused the update of another user's dish, which is
\* still stored with a meal of its owner
C8_Witness ==
    /\ last.view = "DishUpdate" /\ last.method = "POST" /\ last.status = 403
    /\ last.user \in Users
    /\ \E d \in dishes :
        /\ d.id = last.target
        /\ d.owner \in Users \ {last.user}
        /\ \E m \in meals : m.dish = d.id

\* C9: no two stored Dish rows have the same owner and the same title.
C9_OwnerTitleUnique ==
    \A r1 \in dishes, r2 \in dishes :
        (r1.owner = r2.owner /\ r1.title = r2.title) => r1 = r2

\* C10: every Dish or Meal row that a DishCreate or MealCreate request leaves
\* in the database has the requesting user as its owner.
C10_CreatorOwnsRow ==
    [][(last'.view \in {"DishCreate", "MealCreate"} /\ last'.method = "POST")
        => /\ \A d \in dishes' \ dishes : d.owner = last'.user
           /\ \A m \in meals' \ meals : m.owner = last'.user]_vars

\* among the rows that have an owner, owner and title identify the row
OwnedTitlesUnique ==
    \A r1 \in dishes, r2 \in dishes :
        (r1.owner # NoOwner /\ r1.owner = r2.owner /\ r1.title = r2.title) => r1 = r2

====
